---- MODULE Spec2Model ----
(***************************************************************************)
(* Model of src/bot.py: the F1 team-radio relay.                           *)
(*                                                                         *)
(* Two cooperative tasks share one event loop: the poller                  *)
(* (check_new_radios, a tasks.loop) and one command handler at a time.     *)
(* A task runs without interruption from one await to the next, so every   *)
(* action below is the completion of one awaited send together with all    *)
(* the synchronous code that follows it up to the next await (the fetch,   *)
(* the download, the cleanup and the exception handlers are synchronous).  *)
(* The one exception is the return of send_radio_with_audio to its caller, *)
(* a step of its own (pc = "exit") so that the state a call ends in is a   *)
(* state of the model; the step touches nothing another task reads.        *)
(*                                                                         *)
(* The environment decides: whether a send succeeds, what the fetch        *)
(* returns, how the download ends, whether rmtree succeeds.                *)
(***************************************************************************)
EXTENDS Integers, Sequences, FiniteSets

\* ---- bounds of the model ------------------------------------------------
MaxTicks == 2
MaxCmds == 1
MaxFetchLen == 2
MaxReady == 2

\* ---- program constants ---------------------------------------------------
MinSize == 1000
AssetCeiling == 25 * 1024 * 1024

\* ---- the record universe -------------------------------------------------
\* a date is the rank of the ISO-8601 string under Python's string order

\* the entries a response is made of; wf = FALSE: an entry that lacks its
\* 'date' field
Rec(dn, d, url, wf) == [session_key |-> 9890, driver_number |-> dn, date |-> d,
                        recording_url |-> url, wf |-> wf]

Records == {Rec(44, 1, "u", TRUE), Rec(44, 2, "u", TRUE), Rec(1, 2, "", TRUE),
            Rec(1, 1, "", FALSE)}

NoRecord == [session_key |-> 0, driver_number |-> 0, date |-> 0,
             recording_url |-> "", wf |-> FALSE]

test_radio == [session_key |-> 9890, driver_number |-> 30, date |-> 1,
               recording_url |-> "u", wf |-> TRUE]

\* the f-string of line 227; injective on integer fields, so the string is
\* modelled by the triple it is built from
radio_id(radio) == <<radio.session_key, radio.driver_number, radio.date>>

Ids == {radio_id(r) : r \in {x \in Records : x.wf}}

SeqsUpTo(S, n) == UNION {[1..k -> S] : k \in 0..n}

\* what get_team_radio_data hands to its caller: the parsed array, or []
\* after any exception
FetchResults == SeqsUpTo(Records, MaxFetchLen)

\* Python's None, the default of driver_number (lines 35, 163)
None == -1

\* the driver_number and session_key arguments a command is given
DriverArgs == {None, 0, 44}
SessionArgs == {"latest", "9890"}

\* what urlopen and json.loads make of one request: an exception of urlopen,
\* an exception of json.loads, a JSON value that is no array, or an array
Responses == {[kind |-> "transport_failed", data |-> <<>>],
              [kind |-> "bad_json", data |-> <<>>],
              [kind |-> "not_array", data |-> <<>>]}
             \cup {[kind |-> "array", data |-> d] : d \in FetchResults}

\* the responses with at most one record
ShortResponses == {r \in Responses : \A k \in DOMAIN r.data : k = Len(r.data)}

\* no call of get_team_radio_data made
NoFetch == [called |-> FALSE, session_key |-> "", filter |-> FALSE,
            driver_number |-> None, resp |-> "none", array |-> TRUE,
            data |-> <<>>]

Sizes == {MinSize - 1, MinSize, AssetCeiling, AssetCeiling + 1}

\* how the environment lets one download end
DownloadOutcomes == {[kind |-> "mkdtemp_failed", size |-> 0],
                     [kind |-> "transfer_failed", size |-> 0]}
                    \cup {[kind |-> "file", size |-> s] : s \in Sizes}

\* no download tried
NoOutcome == [kind |-> "none", size |-> 0]

\* what bot.get_channel(CHANNEL_ID) gives: None, a channel object without a
\* send method, or a text channel
Channels == {"missing", "nosend", "ok"}

Tasks == {"poller", "cmd"}
CmdKinds == {"radio", "latest_radio", "driver_radio", "test_audio", "help_radio"}

VARIABLES
    botReady,     \* bot.wait_until_ready() would return
    readyEvents,  \* on_ready events dispatched and not yet handled
    readyCount,   \* READY received so far (bounded)
    pollerState,  \* Idle, Waiting, Running, Stopped
    posted_radios,
    pc,           \* per task: the await it is suspended at
    cur,          \* per task: the loop variable `radio`
    queue,        \* per task: the records the for loop has still to visit
    inv,          \* per task: its send_radio_with_audio call, running or just ended
    tick,         \* the current/last execution of check_new_radios
    cmd,          \* the current/last command
    delivered,    \* per identity: send_radio_with_audio calls by the poller
    chan,         \* per identity: what the channel received from the poller
    ticks,
    cmds

vars == <<botReady, readyEvents, readyCount, pollerState, posted_radios, pc,
          cur, queue, inv, tick, cmd, delivered, chan, ticks, cmds>>

\* got: how the environment let the download end
NoInv == [rec |-> NoRecord, is_ctx |-> FALSE, sent |-> <<>>,
          dl |-> "notcalled", size |-> 0, temp_dir |-> "none",
          cleanup |-> "notcalled", exit |-> "none", got |-> NoOutcome]

\* new: the sorted new_radios; resorted: the sort changed their order;
\* started: iterations of the for loop begun; invoked: the records passed to
\* send_radio_with_audio; afterError: the tick before this one ended on an
\* exception; channel: what the channel lookup gave; fetch: the call of
\* get_team_radio_data, without the records (new has those kept); added: the identities the filter added to
\* posted_radios; prev: how the tick before this one ended
NoTick == [new |-> <<>>, resorted |-> FALSE, started |-> 0, invoked |-> <<>>,
           outcome |-> "none", afterError |-> FALSE, channel |-> "unset",
           fetch |-> NoFetch, added |-> {}, prev |-> "none"]

\* driver_number, session_key: the arguments given; fetch: the call of
\* get_team_radio_data; picked: the records left by the sort and the limit;
\* passed: the records passed to send_radio_with_audio; last: the last message
\* that reached the invoker
NoCmd == [kind |-> "none", outcome |-> "none", driver_number |-> None,
          session_key |-> "", fetch |-> NoFetch, picked |-> <<>>,
          passed |-> <<>>, last |-> "none"]

Init ==
    /\ botReady = FALSE
    /\ readyEvents = 0
    /\ readyCount = 0
    /\ pollerState = "Idle"
    /\ posted_radios = {}
    /\ pc = [t \in Tasks |-> "idle"]
    /\ cur = [t \in Tasks |-> NoRecord]
    /\ queue = [t \in Tasks |-> <<>>]
    /\ inv = [t \in Tasks |-> NoInv]
    /\ tick = NoTick
    /\ cmd = NoCmd
    /\ delivered = [i \in Ids |-> 0]
    /\ chan = [i \in Ids |-> [marker |-> 0, summary |-> 0]]
    /\ ticks = 0
    /\ cmds = 0

\* ---- pure functions --------------------------------------------------------

\* filter_new without line 230: identities are never added to posted_radios
RECURSIVE filter_new_no_add(_, _, _, _)
filter_new_no_add(radio_data, i, new_radios, posted) ==
    IF i > Len(radio_data)
    THEN [new |-> new_radios, posted |-> posted, raised |-> FALSE]
    ELSE IF ~radio_data[i].wf
    THEN [new |-> new_radios, posted |-> posted, raised |-> TRUE]
    ELSE IF radio_id(radio_data[i]) \notin posted
    THEN filter_new_no_add(radio_data, i + 1,
                           Append(new_radios, radio_data[i]), posted)
    ELSE filter_new_no_add(radio_data, i + 1, new_radios, posted)

\* lines 225-230: the loop over the fetch result; radio['date'] of an entry
\* without that field raises KeyError and leaves the loop with what it has
\* added so far
RECURSIVE filter_new(_, _, _, _)
filter_new(radio_data, i, new_radios, posted) ==
    IF i > Len(radio_data)
    THEN [new |-> new_radios, posted |-> posted, raised |-> FALSE]
    ELSE IF ~radio_data[i].wf
    THEN [new |-> new_radios, posted |-> posted, raised |-> TRUE]
    ELSE IF radio_id(radio_data[i]) \notin posted
    THEN filter_new(radio_data, i + 1, Append(new_radios, radio_data[i]),
                    posted \cup {radio_id(radio_data[i])})
    ELSE filter_new(radio_data, i + 1, new_radios, posted)

\* Python's truth value of the driver_number argument (line 39)
truthy(driver_number) == driver_number # None /\ driver_number # 0

\* lines 35-47: the URL built (its session_key, whether it carries a
\* driver_number filter and which) and the value returned: [] after an
\* exception, else whatever json.loads gave
get_team_radio_data(session_key, driver_number, resp) ==
    [called |-> TRUE,
     session_key |-> session_key,
     filter |-> truthy(driver_number),
     driver_number |-> IF truthy(driver_number) THEN driver_number ELSE None,
     resp |-> resp.kind,
     array |-> resp.kind # "not_array",
     data |-> IF resp.kind = "array" THEN resp.data ELSE <<>>]

\* the call f without the records it returned
request(f) == [f EXCEPT !.data = <<>>]

\* `not radio_data` (lines 169, 186, 201, 221); a JSON value that is no array
\* is taken to be a non-empty object
falsy(f) == f.array /\ f.data = <<>>

\* iterating the value and reading the fields of its entries raises
\* (lines 174, 191, 206, 227)
unreadable(f) == ~f.array \/ \E k \in 1..Len(f.data) : ~f.data[k].wf

\* sorted(..., key=date [, reverse=True]) is a stable sort
RECURSIVE insert_by_date(_, _, _)
insert_by_date(r, s, reverse) ==
    IF s = <<>> THEN <<r>>
    ELSE IF (IF reverse THEN r.date > Head(s).date ELSE r.date < Head(s).date)
    THEN <<r>> \o s
    ELSE <<Head(s)>> \o insert_by_date(r, Tail(s), reverse)

RECURSIVE sorted_by_date(_, _)
sorted_by_date(s, reverse) ==
    IF s = <<>> THEN <<>>
    ELSE insert_by_date(s[Len(s)],
                        sorted_by_date(SubSeq(s, 1, Len(s) - 1), reverse),
                        reverse)

\* line 233 with the commands' reverse=True
sort_new_radios_reversed(new_radios) == sorted_by_date(new_radios, TRUE)

\* line 233
sort_new_radios(new_radios) == sorted_by_date(new_radios, FALSE)

\* the arguments a command can be given: radio takes an optional driver
\* number and an optional session key (line 163), driver_radio a driver number
\* (line 195), the others none
cmd_args(kind) ==
    IF kind = "radio" THEN DriverArgs \X SessionArgs
    ELSE IF kind = "driver_radio" THEN (DriverArgs \ {None}) \X {"latest"}
    ELSE {<<None, "latest">>}

\* lines 167, 184, 199: the arguments the command passes to the fetcher
fetch_args(kind, driver_number, session_key) ==
    IF kind = "radio" THEN <<session_key, driver_number>>
    ELSE IF kind = "driver_radio" THEN <<"latest", driver_number>>
    ELSE <<"latest", None>>

first_k(s, k) == SubSeq(s, 1, IF Len(s) < k THEN Len(s) ELSE k)

\* lines 174, 191, 206
cmd_limit(kind) ==
    IF kind = "radio" THEN 3 ELSE IF kind = "latest_radio" THEN 1 ELSE 5

\* line 70 with >= 1000 turned into > 1000
download_mp3_file_floor_excluded(o) ==
    IF o.kind = "mkdtemp_failed"
    THEN [raised |-> TRUE, mp3_path |-> FALSE, size |-> 0, temp_dir |-> "none"]
    ELSE IF o.kind = "transfer_failed"
    THEN [raised |-> FALSE, mp3_path |-> FALSE, size |-> 0, temp_dir |-> "exists"]
    ELSE IF o.size <= MinSize
    THEN [raised |-> FALSE, mp3_path |-> FALSE, size |-> 0, temp_dir |-> "exists"]
    ELSE [raised |-> FALSE, mp3_path |-> TRUE, size |-> o.size, temp_dir |-> "exists"]

\* lines 49-79; with mkdtemp failing, line 79 reads the unbound temp_dir
download_mp3_file(o) ==
    IF o.kind = "mkdtemp_failed"
    THEN [raised |-> TRUE, mp3_path |-> FALSE, size |-> 0, temp_dir |-> "none"]
    ELSE IF o.kind = "transfer_failed"
    THEN [raised |-> FALSE, mp3_path |-> FALSE, size |-> 0, temp_dir |-> "exists"]
    ELSE IF o.size < MinSize
    THEN [raised |-> FALSE, mp3_path |-> FALSE, size |-> 0, temp_dir |-> "exists"]
    ELSE [raised |-> FALSE, mp3_path |-> TRUE, size |-> o.size, temp_dir |-> "exists"]

\* line 140 with >= for >
asset_message_ge(i) ==
    IF i.dl = "path"
    THEN IF i.size >= AssetCeiling THEN "toolarge" ELSE "attach"
    ELSE "dlfailed"

\* lines 137-149: which message the asset stage sends
asset_message(i) ==
    IF i.dl = "path"
    THEN IF i.size > AssetCeiling THEN "toolarge" ELSE "attach"
    ELSE "dlfailed"

\* lines 81-88: rmtree, its failure swallowed
cleanup_temp_files(i, rmOk) ==
    IF i.temp_dir = "none" THEN i
    ELSE [i EXCEPT !.temp_dir = IF rmOk THEN "removed" ELSE "exists",
                   !.cleanup = IF rmOk THEN "removed" ELSE "failed"]

\* the cleanup as the last statement of the try block instead of a finally
cleanup_without_finally(i, sendOk, rmOk) ==
    IF sendOk THEN cleanup_temp_files(i, rmOk) ELSE i

\* lines 136/150-152: try ... finally around the asset-stage send
finally_cleanup(i, sendOk, rmOk) == cleanup_temp_files(i, rmOk)

\* line 216 dropped: the tick goes on whatever the lookup gave
channel_usable_always(channel) == TRUE

\* line 216: `not channel or not hasattr(channel, 'send')` is false
channel_usable(channel) == channel = "ok"

\* tasks.loop started again by the timer alone, its body still running
loop_may_start_timer_only == pollerState = "Running"

\* tasks.loop (line 211): the loop awaits its body, then sleeps until the next
\* iteration is due; one task runs all iterations
loop_may_start == pollerState = "Running" /\ pc["poller"] = "idle"

\* check_new_radios without its outer try
tick_escapes_no_handler(raised) == raised

\* lines 214/245-246: does an exception raised in the tick body leave it?
tick_escapes(raised) == FALSE

\* tasks.loop (line 211): an exception leaving the body ends the loop
loop_after_body(escaped) == IF escaped THEN "Stopped" ELSE "Running"

\* line 126 dropped: the download is tried whatever the URL
has_recording_always(radio) == TRUE

\* line 126
has_recording(radio) == radio.recording_url # ""

\* the selection left to the records the poller has not tracked
select_radios_unposted(kind, radio_data) ==
    first_k(sorted_by_date(SelectSeq(radio_data,
                                     LAMBDA r : radio_id(r) \notin posted_radios),
                           TRUE),
            cmd_limit(kind))

\* lines 174, 191, 206: the most recent records, newest first
select_radios(kind, radio_data) ==
    first_k(sorted_by_date(radio_data, TRUE), cmd_limit(kind))

\* the command c after the call i of send_radio_with_audio: the last message
\* of the call that was sent is the last one the invoker has
heard(c, i) ==
    LET oks == SelectSeq(i.sent, LAMBDA m : m.ok) IN
    IF oks = <<>> THEN c ELSE [c EXCEPT !.last = oks[Len(oks)].kind]

start_inv(radio, is_ctx) ==
    [NoInv EXCEPT !.rec = radio, !.is_ctx = is_ctx, !.exit = "running"]

logged(i, kind, ok) == [i EXCEPT !.sent = Append(@, [kind |-> kind, ok |-> ok])]

bump(f, id, field) == [f EXCEPT ![id][field] = @ + 1]

\* ---- the destination becomes ready ----------------------------------------

\* the gateway's READY: the client sets its ready flag and dispatches on_ready
\* (again after a reconnect with a new session)
Ready ==
    /\ readyCount < MaxReady
    /\ botReady' = TRUE
    /\ readyEvents' = readyEvents + 1
    /\ readyCount' = readyCount + 1
    /\ UNCHANGED <<pollerState, posted_radios, pc, cur, queue, inv, tick,
                   cmd, delivered, chan, ticks, cmds>>

\* on_ready running the loop at once instead of starting the task that waits
on_ready_no_wait ==
    /\ readyEvents > 0
    /\ readyEvents' = readyEvents - 1
    /\ pollerState' = IF pollerState \in {"Idle", "Stopped"}
                      THEN "Running" ELSE pollerState
    /\ UNCHANGED <<botReady, readyCount, posted_radios, pc, cur, queue, inv,
                   tick, cmd, delivered, chan, ticks, cmds>>

\* lines 154-160: check_new_radios.start(); start() raises RuntimeError, which
\* the event dispatcher logs, when the loop's task exists and has not ended
on_ready ==
    /\ readyEvents > 0
    /\ readyEvents' = readyEvents - 1
    /\ pollerState' = IF pollerState \in {"Idle", "Stopped"}
                      THEN "Waiting" ELSE pollerState
    /\ UNCHANGED <<botReady, readyCount, posted_radios, pc, cur, queue, inv,
                   tick, cmd, delivered, chan, ticks, cmds>>

\* lines 248-250: await bot.wait_until_ready()
before_check_new_radios ==
    /\ pollerState = "Waiting"
    /\ botReady
    /\ pollerState' = "Running"
    /\ UNCHANGED <<botReady, readyEvents, readyCount, posted_radios, pc, cur,
                   queue, inv, tick, cmd, delivered, chan, ticks, cmds>>

\* ---- the poller's for loop (lines 235-246) ----------------------------------

\* the loop takes its next record and awaits the marker send, or the body ends
NextRadio ==
    IF queue["poller"] = <<>>
    THEN /\ pc' = [pc EXCEPT !["poller"] = "idle"]
         /\ cur' = [cur EXCEPT !["poller"] = NoRecord]
         /\ tick' = [tick EXCEPT !.outcome = "ok"]
         /\ pollerState' = loop_after_body(FALSE)
         /\ UNCHANGED queue
    ELSE /\ pc' = [pc EXCEPT !["poller"] = "marker"]
         /\ cur' = [cur EXCEPT !["poller"] = Head(queue["poller"])]
         /\ queue' = [queue EXCEPT !["poller"] = Tail(@)]
         /\ tick' = [tick EXCEPT !.started = @ + 1]
         /\ UNCHANGED pollerState

\* an exception reaches the outer try of check_new_radios
TickRaised ==
    /\ pc' = [pc EXCEPT !["poller"] = "idle"]
    /\ cur' = [cur EXCEPT !["poller"] = NoRecord]
    /\ queue' = [queue EXCEPT !["poller"] = <<>>]
    /\ tick' = [tick EXCEPT !.outcome = "error"]
    /\ pollerState' = loop_after_body(tick_escapes(TRUE))

\* the command's for loop (lines 176-177, 208-209) or its end
NextCmdRadio ==
    IF queue["cmd"] = <<>>
    THEN /\ pc' = [pc EXCEPT !["cmd"] = "idle"]
         /\ cur' = [cur EXCEPT !["cmd"] = NoRecord]
         /\ cmd' = [heard(cmd, inv["cmd"]) EXCEPT !.outcome = "done"]
         /\ inv' = [inv EXCEPT !["cmd"] = NoInv]
         /\ UNCHANGED queue
    ELSE /\ pc' = [pc EXCEPT !["cmd"] = "summary"]
         /\ cur' = [cur EXCEPT !["cmd"] = Head(queue["cmd"])]
         /\ queue' = [queue EXCEPT !["cmd"] = Tail(@)]
         /\ inv' = [inv EXCEPT !["cmd"] = start_inv(Head(queue["cmd"]), TRUE)]
         /\ cmd' = [heard(cmd, inv["cmd"]) EXCEPT
                       !.passed = Append(@, Head(queue["cmd"]))]

\* an exception leaves the command callback (the framework logs it)
CmdRaised ==
    /\ pc' = [pc EXCEPT !["cmd"] = "idle"]
    /\ cur' = [cur EXCEPT !["cmd"] = NoRecord]
    /\ queue' = [queue EXCEPT !["cmd"] = <<>>]
    /\ cmd' = [heard(cmd, inv["cmd"]) EXCEPT !.outcome = "error"]
    /\ inv' = [inv EXCEPT !["cmd"] = NoInv]

\* ---- send_radio_with_audio (lines 118-152) ----------------------------------

\* the call of task t ends as i says
Leave(t, i) ==
    /\ pc' = [pc EXCEPT ![t] = "exit"]
    /\ inv' = [inv EXCEPT ![t] = i]
    /\ UNCHANGED <<cur, queue, tick, cmd, pollerState>>

\* lines 130-134, then the asset-stage send of lines 136-149 is awaited
Retrieve(t, i, o) ==
    LET d == download_mp3_file(o) IN
    IF d.raised
    THEN Leave(t, [i EXCEPT !.dl = "raised", !.exit = "raised", !.got = o])
    ELSE /\ pc' = [pc EXCEPT ![t] = "asset"]
         /\ inv' = [inv EXCEPT ![t] =
                       [i EXCEPT !.dl = IF d.mp3_path THEN "path" ELSE "none",
                                 !.size = d.size, !.temp_dir = d.temp_dir,
                                 !.got = o]]
         /\ UNCHANGED <<cur, queue, tick, cmd, pollerState>>

\* line 123 completes
PipeSummary(t) ==
    /\ pc[t] = "summary"
    /\ \E ok \in BOOLEAN, o \in DownloadOutcomes :
         LET i == logged(inv[t], "summary", ok) IN
         /\ chan' = IF t = "poller" /\ ok
                    THEN bump(chan, radio_id(i.rec), "summary") ELSE chan
         /\ IF ~ok THEN Leave(t, [i EXCEPT !.exit = "raised"])
            ELSE IF ~has_recording(i.rec)
            THEN Leave(t, [i EXCEPT !.exit = "returned"])
            ELSE IF i.is_ctx
            THEN /\ pc' = [pc EXCEPT ![t] = "notice"]
                 /\ inv' = [inv EXCEPT ![t] = i]
                 /\ UNCHANGED <<cur, queue, tick, cmd, pollerState>>
            ELSE Retrieve(t, i, o)
    /\ UNCHANGED <<botReady, readyEvents, readyCount, posted_radios,
                   delivered, ticks, cmds>>

\* line 128 completes
PipeNotice(t) ==
    /\ pc[t] = "notice"
    /\ \E ok \in BOOLEAN, o \in DownloadOutcomes :
         LET i == logged(inv[t], "downloading", ok) IN
         IF ~ok THEN Leave(t, [i EXCEPT !.exit = "raised"])
         ELSE Retrieve(t, i, o)
    /\ UNCHANGED <<botReady, readyEvents, readyCount, posted_radios,
                   delivered, chan, ticks, cmds>>

\* the send of line 141, 146 or 149 completes, then the finally clause
PipeAsset(t) ==
    /\ pc[t] = "asset"
    /\ \E ok \in BOOLEAN, rmOk \in BOOLEAN :
         LET i1 == logged(inv[t], asset_message(inv[t]), ok)
             i2 == finally_cleanup(i1, ok, rmOk)
         IN Leave(t, [i2 EXCEPT !.exit = IF ok THEN "returned" ELSE "raised"])
    /\ UNCHANGED <<botReady, readyEvents, readyCount, posted_radios,
                   delivered, chan, ticks, cmds>>

\* ---- check_new_radios (lines 211-246) ----------------------------------------

\* lines 214-235: channel lookup, fetch, filtering and sort run without an await
TickStartOn(responses) ==
    /\ loop_may_start
    /\ ticks < MaxTicks
    /\ ticks' = ticks + 1
    /\ inv' = [inv EXCEPT !["poller"] = NoInv]
    /\ UNCHANGED <<botReady, readyEvents, readyCount, cmd, delivered, chan,
                   cmds>>
    /\ \E channel \in Channels :
         LET NewTick == [NoTick EXCEPT !.afterError = (tick.outcome = "error"),
                                       !.prev = tick.outcome,
                                       !.channel = channel]
         IN
         IF ~channel_usable(channel)
         THEN /\ tick' = [NewTick EXCEPT !.outcome = "nochannel"]
              /\ pollerState' = loop_after_body(FALSE)
              /\ UNCHANGED <<posted_radios, pc, cur, queue>>
         ELSE \E resp \in responses :
              LET radio_data == get_team_radio_data("latest", None, resp)
                  Fetched == [NewTick EXCEPT !.fetch = request(radio_data)]
              IN
              IF falsy(radio_data)
              THEN /\ tick' = [Fetched EXCEPT !.outcome = "empty"]
                   /\ pollerState' = loop_after_body(FALSE)
                   /\ UNCHANGED <<posted_radios, pc, cur, queue>>
              ELSE IF ~radio_data.array
              THEN /\ tick' = [Fetched EXCEPT !.outcome = "error"]
                   /\ pollerState' = loop_after_body(tick_escapes(TRUE))
                   /\ UNCHANGED <<posted_radios, pc, cur, queue>>
              ELSE LET f == filter_new(radio_data.data, 1, <<>>, posted_radios)
                       new_radios == sort_new_radios(f.new)
                       Filtered == [Fetched EXCEPT
                                       !.added = f.posted \ posted_radios]
                   IN /\ posted_radios' = f.posted
                      /\ IF f.raised
                         THEN /\ tick' = [Filtered EXCEPT !.outcome = "error"]
                              /\ pollerState' = loop_after_body(tick_escapes(TRUE))
                              /\ UNCHANGED <<pc, cur, queue>>
                         ELSE IF new_radios = <<>>
                         THEN /\ tick' = [Filtered EXCEPT !.outcome = "ok"]
                              /\ pollerState' = loop_after_body(FALSE)
                              /\ UNCHANGED <<pc, cur, queue>>
                         ELSE /\ tick' = [Filtered EXCEPT
                                             !.new = new_radios,
                                             !.resorted = (new_radios # f.new),
                                             !.started = 1,
                                             !.outcome = "running"]
                              /\ pc' = [pc EXCEPT !["poller"] = "marker"]
                              /\ cur' = [cur EXCEPT !["poller"] = Head(new_radios)]
                              /\ queue' = [queue EXCEPT !["poller"] = Tail(new_radios)]
                              /\ UNCHANGED pollerState

TickStart == TickStartOn(Responses)

\* line 237 completes; on success line 238 calls send_radio_with_audio
PollMarker ==
    /\ pc["poller"] = "marker"
    /\ \E ok \in BOOLEAN :
         IF ok
         THEN /\ chan' = bump(chan, radio_id(cur["poller"]), "marker")
              /\ delivered' = [delivered EXCEPT ![radio_id(cur["poller"])] = @ + 1]
              /\ tick' = [tick EXCEPT !.invoked = Append(@, cur["poller"])]
              /\ inv' = [inv EXCEPT !["poller"] = start_inv(cur["poller"], FALSE)]
              /\ pc' = [pc EXCEPT !["poller"] = "summary"]
         ELSE /\ pc' = [pc EXCEPT !["poller"] = "fallback"]
              /\ inv' = [inv EXCEPT !["poller"] = NoInv]
              /\ UNCHANGED <<chan, delivered, tick>>
    /\ UNCHANGED <<botReady, readyEvents, readyCount, pollerState,
                   posted_radios, cur, queue, cmd, ticks, cmds>>

\* send_radio_with_audio returns to line 238, or raises into line 239
PollReturn ==
    /\ pc["poller"] = "exit"
    /\ IF inv["poller"].exit = "raised"
       THEN /\ pc' = [pc EXCEPT !["poller"] = "fallback"]
            /\ UNCHANGED <<cur, queue, tick, pollerState>>
       ELSE NextRadio
    /\ inv' = [inv EXCEPT !["poller"] = NoInv]
    /\ UNCHANGED <<botReady, readyEvents, readyCount, posted_radios, cmd,
                   delivered, chan, ticks, cmds>>

\* lines 239-243: the handler's send completes; its failure reaches line 245
PollFallback ==
    /\ pc["poller"] = "fallback"
    /\ \E ok \in BOOLEAN :
         IF ok
         THEN /\ chan' = bump(bump(chan, radio_id(cur["poller"]), "marker"),
                              radio_id(cur["poller"]), "summary")
              /\ NextRadio
         ELSE /\ TickRaised
              /\ UNCHANGED chan
    /\ UNCHANGED <<botReady, readyEvents, readyCount, posted_radios, inv,
                   cmd, delivered, ticks, cmds>>

\* ---- the commands (lines 162-209, 252-314) ------------------------------------

\* a command message arrives; the callback awaits its first send
CmdStart ==
    /\ botReady
    /\ pc["cmd"] = "idle"
    /\ cmds < MaxCmds
    /\ cmds' = cmds + 1
    /\ \E kind \in CmdKinds :
         /\ \E a \in cmd_args(kind) :
              cmd' = [NoCmd EXCEPT !.kind = kind, !.outcome = "running",
                                   !.driver_number = a[1], !.session_key = a[2]]
         /\ pc' = [pc EXCEPT !["cmd"] = IF kind = "help_radio" THEN "help" ELSE "ack"]
    /\ UNCHANGED <<botReady, readyEvents, readyCount, pollerState,
                   posted_radios, cur, queue, inv, tick, delivered, chan,
                   ticks>>

\* lines 165, 182, 197, 255 complete; then the fetch, the sort and the limit
CmdAck ==
    /\ pc["cmd"] = "ack"
    /\ \E ok \in BOOLEAN :
         LET Acked == [cmd EXCEPT !.last = "ack"] IN
         IF ~ok THEN CmdRaised
         ELSE IF cmd.kind = "test_audio"
         THEN /\ pc' = [pc EXCEPT !["cmd"] = "summary"]
              /\ cur' = [cur EXCEPT !["cmd"] = test_radio]
              /\ inv' = [inv EXCEPT !["cmd"] = start_inv(test_radio, TRUE)]
              /\ cmd' = [Acked EXCEPT !.passed = <<test_radio>>]
              /\ UNCHANGED queue
         ELSE \E resp \in Responses :
              LET a == fetch_args(cmd.kind, cmd.driver_number, cmd.session_key)
                  radio_data == get_team_radio_data(a[1], a[2], resp)
                  Fetched == [Acked EXCEPT !.fetch = radio_data]
              IN
              IF falsy(radio_data)
              THEN /\ pc' = [pc EXCEPT !["cmd"] = "nodata"]
                   /\ cmd' = Fetched
                   /\ UNCHANGED <<cur, queue, inv>>
              ELSE IF unreadable(radio_data)
              THEN /\ pc' = [pc EXCEPT !["cmd"] = "idle"]
                   /\ cmd' = [Fetched EXCEPT !.outcome = "error"]
                   /\ UNCHANGED <<cur, queue, inv>>
              ELSE LET chosen == select_radios(cmd.kind, radio_data.data) IN
                   IF chosen = <<>>
                   THEN /\ pc' = [pc EXCEPT !["cmd"] = "idle"]
                        /\ cmd' = [Fetched EXCEPT !.outcome =
                                     IF cmd.kind = "latest_radio"
                                     THEN "error" ELSE "done"]
                        /\ UNCHANGED <<cur, queue, inv>>
                   ELSE
                      /\ pc' = [pc EXCEPT !["cmd"] = "summary"]
                      /\ cur' = [cur EXCEPT !["cmd"] = Head(chosen)]
                      /\ queue' = [queue EXCEPT !["cmd"] = Tail(chosen)]
                      /\ inv' = [inv EXCEPT !["cmd"] = start_inv(Head(chosen), TRUE)]
                      /\ cmd' = [Fetched EXCEPT !.picked = chosen,
                                                !.passed = <<Head(chosen)>>]
    /\ UNCHANGED <<botReady, readyEvents, readyCount, pollerState,
                   posted_radios, tick, delivered, chan, ticks, cmds>>

\* send_radio_with_audio returns to the command's loop, or raises out of it
CmdReturn ==
    /\ pc["cmd"] = "exit"
    /\ IF inv["cmd"].exit = "raised" THEN CmdRaised ELSE NextCmdRadio
    /\ UNCHANGED <<botReady, readyEvents, readyCount, pollerState,
                   posted_radios, tick, delivered, chan, ticks, cmds>>

\* lines 170, 187, 202 complete
CmdNoData ==
    /\ pc["cmd"] = "nodata"
    /\ \E ok \in BOOLEAN :
         /\ pc' = [pc EXCEPT !["cmd"] = "idle"]
         /\ cmd' = [cmd EXCEPT !.outcome = IF ok THEN "nodata" ELSE "error",
                               !.last = IF ok THEN "nodata" ELSE @]
    /\ UNCHANGED <<botReady, readyEvents, readyCount, pollerState,
                   posted_radios, cur, queue, inv, tick, delivered, chan,
                   ticks, cmds>>

\* line 314 completes
CmdHelp ==
    /\ pc["cmd"] = "help"
    /\ \E ok \in BOOLEAN :
         /\ pc' = [pc EXCEPT !["cmd"] = "idle"]
         /\ cmd' = [cmd EXCEPT !.outcome = IF ok THEN "done" ELSE "error",
                               !.last = IF ok THEN "help" ELSE @]
    /\ UNCHANGED <<botReady, readyEvents, readyCount, pollerState,
                   posted_radios, cur, queue, inv, tick, delivered, chan,
                   ticks, cmds>>

PollSummary == PipeSummary("poller")
PollAsset == PipeAsset("poller")
CmdSummary == PipeSummary("cmd")
CmdNotice == PipeNotice("cmd")
CmdAsset == PipeAsset("cmd")

PollerNext ==
    \/ before_check_new_radios
    \/ TickStart
    \/ PollMarker
    \/ PollSummary
    \/ PollAsset
    \/ PollReturn
    \/ PollFallback

CmdNext ==
    \/ CmdStart
    \/ CmdAck
    \/ CmdSummary
    \/ CmdNotice
    \/ CmdAsset
    \/ CmdReturn
    \/ CmdNoData
    \/ CmdHelp

\* the two tasks interleaved at their awaits; the reachable states are the
\* pairs of a poller state and a command state, some 5*10^5 of them with one
\* tick and one command and beyond 3*10^7 at the bounds above
Next ==
    \/ Ready
    \/ on_ready
    \/ PollerNext
    \/ CmdNext

Spec == Init /\ [][Next]_vars

\* The tasks one at a time: the poller runs only while no command has been
\* given, a command only while no tick has begun.  The two tasks share no
\* variable (a command reads and writes pc, cur, queue and inv at "cmd", cmd
\* and cmds only), so what holds of each task here holds of it in Spec, whose
\* reachable states are the pairs of the states reached here.
SoloTickStart == cmds = 0 /\ TickStart
SoloCmdStart == ticks = 0 /\ CmdStart

SoloNext ==
    \/ Ready
    \/ on_ready
    \/ before_check_new_radios
    \/ SoloTickStart
    \/ PollMarker
    \/ PollSummary
    \/ PollAsset
    \/ PollReturn
    \/ PollFallback
    \/ SoloCmdStart
    \/ CmdAck
    \/ CmdSummary
    \/ CmdNotice
    \/ CmdAsset
    \/ CmdReturn
    \/ CmdNoData
    \/ CmdHelp

SoloSpec == Init /\ [][SoloNext]_vars

\* The tasks interleaved at their awaits, a command sharing the run with one
\* tick: a second tick begins only in a run without a command, a command
\* only in a run with at most one tick.  Each fetch gives at most one record.
ConcTickStart ==
    /\ ticks = 0 \/ cmds = 0
    /\ TickStartOn(ShortResponses)

ConcCmdStart == ticks <= 1 /\ CmdStart

ConcCmdAck == CmdAck /\ cmd'.fetch.data \in {r.data : r \in ShortResponses}

ConcNext ==
    \/ Ready
    \/ on_ready
    \/ before_check_new_radios
    \/ ConcTickStart
    \/ PollMarker
    \/ PollSummary
    \/ PollAsset
    \/ PollReturn
    \/ PollFallback
    \/ ConcCmdStart
    \/ ConcCmdAck
    \/ CmdSummary
    \/ CmdNotice
    \/ CmdAsset
    \/ CmdReturn
    \/ CmdNoData
    \/ CmdHelp

ConcSpec == Init /\ [][ConcNext]_vars

\* ---- the claims ------------------------------------------------------------------

Sorted(s) == \A i, j \in 1..Len(s) : i < j => s[i].date <= s[j].date

Range(s) == {s[k] : k \in 1..Len(s)}

Least(a, b) == IF a < b THEN a ELSE b

ListingKinds == {"radio", "latest_radio", "driver_radio"}

AssetKinds == {"attach", "toolarge", "dlfailed"}

\* the entries of the asset stage among the sends of call i
AssetSends(i) == {k \in 1..Len(i.sent) : i.sent[k].kind \in AssetKinds}

\* C1: the poller calls send_radio_with_audio at most once per identity: no
\* identity is ever counted twice, the new records of a tick hold no identity
\* tracked before the tick and no identity twice, and the record a call is
\* made for is one of the tick's new records.
C1_DeliveredAtMostOnce ==
    [][/\ \A id \in Ids : delivered'[id] <= 1
       /\ ticks' # ticks =>
            /\ \A k \in 1..Len(tick'.new) :
                 radio_id(tick'.new[k]) \notin posted_radios
            /\ \A k, l \in 1..Len(tick'.new) :
                 k # l => radio_id(tick'.new[k]) # radio_id(tick'.new[l])
       /\ delivered' # delivered =>
            /\ tick.started \in 1..Len(tick.new)
            /\ tick.new[tick.started] = cur["poller"]
            /\ delivered' = [delivered EXCEPT ![radio_id(cur["poller"])] = 1]
      ]_vars

\* a second tick whose fetch held only tracked records ended having delivered
\* nothing, one record having been delivered by the tick before
C1_Witness ==
    /\ ticks = 2
    /\ pc["poller"] = "idle"
    /\ tick.outcome = "ok"
    /\ tick.new = <<>>
    /\ \E id \in Ids : delivered[id] = 1

\* C2: for each identity the channel receives the poller's marker and the
\* record's summary at most once.
C2_NeverReannounced ==
    \A id \in Ids : chan[id].marker <= 1 /\ chan[id].summary <= 1

\* C3: a tick that reached its for loop ends only after every new record had
\* its iteration begun, whatever failed on the way.
C3_TickNotAborted ==
    (pc["poller"] = "idle" /\ tick.outcome \in {"ok", "error"})
        => tick.started = Len(tick.new)

\* C4: within a tick the calls of send_radio_with_audio are made in ascending
\* date order: the new records are sorted, the calls made so far are sorted,
\* and no record still waiting has a date below that of a call already made.
C4_AscendingOrder ==
    /\ Sorted(tick.new)
    /\ Sorted(tick.invoked)
    /\ \A k \in 1..Len(queue["poller"]), i \in 1..Len(tick.invoked) :
         tick.invoked[i].date <= queue["poller"][k].date
    /\ pc["poller"] = "marker" =>
         \A i \in 1..Len(tick.invoked) :
            tick.invoked[i].date <= cur["poller"].date

\* the fetch gave two new records newest first and both were passed on,
\* oldest first
C4_Witness ==
    /\ tick.resorted
    /\ Len(tick.invoked) = 2
    /\ tick.invoked[1].date < tick.invoked[2].date

\* C5: when the send of the attachment fails, send_radio_with_audio itself
\* sends a message with the link afterwards and returns without raising.
C5_AttachFailureCaught ==
    \A t \in Tasks :
        (pc[t] = "exit" /\ \E k \in 1..Len(inv[t].sent) :
                              inv[t].sent[k] = [kind |-> "attach", ok |-> FALSE])
            => /\ inv[t].exit = "returned"
               /\ inv[t].sent[Len(inv[t].sent)].kind \in {"toolarge", "dlfailed"}

\* C6 as stated: when send_radio_with_audio returns or raises, no temporary
\* directory of the call exists.
C6_TempDirGone ==
    \A t \in Tasks : pc[t] = "exit" => inv[t].temp_dir # "exists"

\* C6 as amended: when send_radio_with_audio returns or raises after the
\* download returned, cleanup_temp_files has been called on the directory,
\* and the directory exists then only if its removal itself failed.
C6_TempDirReleased ==
    \A t \in Tasks :
        pc[t] = "exit" =>
            /\ inv[t].dl \in {"path", "none"} => inv[t].cleanup # "notcalled"
            /\ inv[t].temp_dir = "exists" => inv[t].cleanup = "failed"
            /\ inv[t].dl \in {"notcalled", "raised"} => inv[t].temp_dir = "none"

\* a send after the download failed, the call raised, the directory is gone
C6_Witness ==
    \E t \in Tasks :
        /\ pc[t] = "exit"
        /\ inv[t].exit = "raised"
        /\ inv[t].dl = "path"
        /\ inv[t].temp_dir = "removed"

\* C7: the loop never stops: whenever a tick has ended, normally or on an
\* exception of the filtering or of a delivery, the poller is Running.
C7_PollerKeepsRunning ==
    /\ pollerState # "Stopped"
    /\ (pc["poller"] = "idle" /\ tick.outcome # "none") => pollerState = "Running"
    /\ pc["poller"] # "idle" => pollerState = "Running"

\* a tick ended on an exception and the tick after it delivered a record
C7_Witness ==
    /\ tick.afterError
    /\ pc["poller"] = "idle"
    /\ tick.outcome = "ok"
    /\ Len(tick.invoked) >= 1

\* C8: for a record with a recording URL whose download returned, the asset
\* stage sends one message: the attachment if and only if a path came back
\* and the size is at most 25*1024*1024, and otherwise a notice that carries
\* the URL (lines 141 and 149) and no attachment.
C8_AttachIffWithinCeiling ==
    \A t \in Tasks :
        (pc[t] = "exit" /\ inv[t].dl \in {"path", "none"}) =>
            /\ has_recording(inv[t].rec)
            /\ Cardinality(AssetSends(inv[t])) = 1
            /\ \A k \in AssetSends(inv[t]) :
                 /\ k = Len(inv[t].sent)
                 /\ inv[t].sent[k].kind = "attach"
                      <=> (inv[t].dl = "path" /\ inv[t].size <= 26214400)

\* a file of exactly the ceiling was attached
C8_Witness ==
    \E t \in Tasks :
        /\ pc[t] = "exit"
        /\ inv[t].dl = "path"
        /\ inv[t].size = 26214400
        /\ inv[t].sent[Len(inv[t].sent)] = [kind |-> "attach", ok |-> TRUE]

\* C9: for a record with an empty recording URL send_radio_with_audio sends
\* the summary and nothing else, calls no download and makes no directory.
C9_EmptyUrlSummaryOnly ==
    \A t \in Tasks :
        (inv[t].exit # "none" /\ inv[t].rec.recording_url = "") =>
            /\ inv[t].dl = "notcalled"
            /\ inv[t].temp_dir = "none"
            /\ pc[t] \in {"summary", "exit"}
            /\ pc[t] = "summary" => inv[t].sent = <<>>
            /\ pc[t] = "exit" =>
                 /\ Len(inv[t].sent) = 1
                 /\ inv[t].sent[1].kind = "summary"

\* a call for a record without URL returned after its summary was sent
C9_Witness ==
    \E t \in Tasks :
        /\ pc[t] = "exit"
        /\ inv[t].rec.recording_url = ""
        /\ inv[t].exit = "returned"
        /\ inv[t].sent = <<[kind |-> "summary", ok |-> TRUE]>>

\* C10: the poller goes Idle, Waiting, Running in that order, and it is
\* Running, and a tick has begun, only with the destination ready; before
\* that nothing is fetched, sent or tracked.
C10_NoTickBeforeReady ==
    [][/\ pollerState' # pollerState =>
            <<pollerState, pollerState'>> \in
                {<<"Idle", "Waiting">>, <<"Waiting", "Running">>}
       /\ (pollerState' = "Running" \/ ticks' > 0) => botReady'
       /\ pollerState' # "Running" =>
            /\ ticks' = 0
            /\ posted_radios' = {}
            /\ pc'["poller"] = "idle"
            /\ delivered' = delivered
            /\ chan' = chan
      ]_vars

\* the poller is Running and a tick has delivered a record
C10_Witness ==
    /\ pollerState = "Running"
    /\ ticks >= 1
    /\ \E id \in Ids : delivered[id] = 1

\* C11: no step of a command changes posted_radios, so what a command has
\* delivered is as new to the next tick as it was before, and a command picks
\* its records among all the fetched ones, tracked or not.
C11_CommandsBypassDedup ==
    [][/\ (cmd' # cmd \/ pc'["cmd"] # pc["cmd"]) => posted_radios' = posted_radios
       /\ (pc["cmd"] = "ack" /\ cmd'.fetch.called /\ ~unreadable(cmd'.fetch)) =>
            /\ Range(cmd'.picked) \subseteq Range(cmd'.fetch.data)
            /\ Len(cmd'.picked) =
                   Least(Len(cmd'.fetch.data), cmd_limit(cmd'.kind))
      ]_vars

\* a command and a tick have both delivered the same record, which is tracked
C11_Witness ==
    \E r \in Records :
        /\ cmd.outcome = "done"
        /\ cmd.kind \in ListingKinds
        /\ r \in Range(cmd.passed)
        /\ tick.outcome = "ok"
        /\ r \in Range(tick.invoked)
        /\ radio_id(r) \in posted_radios

\* C12: every record the command driver_radio n passes to the delivery
\* pipeline has driver number n.
C12_DriverRadioOnlyThatDriver ==
    cmd.kind = "driver_radio" =>
        \A r \in Range(cmd.passed) : r.driver_number = cmd.driver_number

\* C13: whatever the response, the fetcher's caller gets a sequence of
\* well-formed records, and the empty sequence when the transfer failed, the
\* body was no JSON, or the JSON was no array of well-formed records.
C13_FetcherSoftFailure ==
    /\ tick.fetch.called =>
          /\ tick.fetch.array
          /\ tick.fetch.resp # "array" => tick.outcome = "empty"
    /\ cmd.fetch.called =>
          /\ cmd.fetch.array
          /\ \A r \in Range(cmd.fetch.data) : r.wf
          /\ cmd.fetch.resp # "array" => cmd.fetch.data = <<>>

\* C14: once a temporary directory is allocated, download_mp3_file returns
\* and hands the directory back, whether the transfer fails or not; it returns
\* a path exactly when the transfer succeeded and left a file of at least 1000
\* bytes, and no path otherwise.
C14_RetrieverReturnsHandle ==
    \A t \in Tasks :
        LET i == inv[t] IN
        i.got # NoOutcome =>
            /\ i.got.kind \in {"transfer_failed", "file"} =>
                  /\ i.dl \in {"path", "none"}
                  /\ i.temp_dir # "none"
            /\ i.dl = "path" <=> (i.got.kind = "file" /\ i.got.size >= MinSize)
            /\ i.got.kind = "transfer_failed" => i.dl = "none"

\* a download of exactly 1000 bytes has given a path and the directory
C14_Witness ==
    \E t \in Tasks :
        /\ inv[t].got = [kind |-> "file", size |-> MinSize]
        /\ inv[t].dl = "path"
        /\ inv[t].temp_dir = "exists"

\* C17: the query of every fetch names the session key the caller passed, and
\* it carries the driver_number filter exactly when the caller passed a
\* driver number, 0 included.
C17_QueryCarriesArguments ==
    /\ tick.fetch.called =>
          tick.fetch.session_key = "latest" /\ ~tick.fetch.filter
    /\ cmd.fetch.called =>
          LET a == fetch_args(cmd.kind, cmd.driver_number, cmd.session_key) IN
          /\ cmd.fetch.session_key = a[1]
          /\ cmd.fetch.filter <=> a[2] # None
          /\ cmd.fetch.filter => cmd.fetch.driver_number = a[2]

\* the command has ended
CmdEnded == cmd.outcome \in {"done", "nodata", "error"}

\* p is the k most recent records of d, newest first
MostRecent(p, d, k) ==
    /\ Len(p) = Least(Len(d), k)
    /\ Range(p) \subseteq Range(d)
    /\ \A i, j \in 1..Len(p) : i < j => p[i].date >= p[j].date
    /\ \A r \in Range(d) \ Range(p) : \A q \in Range(p) : r.date <= q.date

\* C15: when a listing command has ended, the records it has passed to the
\* delivery pipeline are the k most recent records of its fetch result, newest
\* first, with k = 3 for radio, 1 for latest_radio and 5 for driver_radio.
C15_DeliversMostRecent ==
    (CmdEnded /\ cmd.kind \in ListingKinds /\ cmd.fetch.called
              /\ ~unreadable(cmd.fetch)) =>
        MostRecent(cmd.passed, cmd.fetch.data, cmd_limit(cmd.kind))

\* C16: a command that has ended has sent the invoker a message (unless its
\* very first send failed); with an empty fetch result that message is the
\* 'no data' notice and no record was delivered; and when the delivery of a
\* record raised, the last message is a notice of the failure.
C16_NeverSilent ==
    CmdEnded =>
        /\ cmd.last = "none" => (cmd.outcome = "error" /\ cmd.passed = <<>>)
        /\ (cmd.outcome # "error" /\ cmd.fetch.called /\ falsy(cmd.fetch)) =>
              cmd.last = "nodata" /\ cmd.passed = <<>>
        /\ (cmd.outcome = "error" /\ cmd.passed # <<>>) =>
              cmd.last \in {"dlfailed", "toolarge"}

\* C18: a tick begins only when no tick body is in progress, the body in
\* progress is the one of the last tick begun, and posted_radios changes only
\* in the step that begins a tick, never in a step of a command, also with a
\* command suspended at one of its awaits.
C18_TicksNeverOverlap ==
    [][/\ ticks' # ticks =>
            /\ ticks' = ticks + 1
            /\ pc["poller"] = "idle"
            /\ tick.outcome # "running"
            /\ inv["poller"].exit # "running"
       /\ pc'["poller"] # "idle" <=> tick'.outcome = "running"
       /\ posted_radios' # posted_radios =>
            /\ ticks' = ticks + 1
            /\ cmd' = cmd
            /\ pc'["cmd"] = pc["cmd"]
            /\ inv'["cmd"] = inv["cmd"]
      ]_vars

\* a tick that has tracked a record is suspended in its delivery while a
\* command is suspended in a delivery of its own
C18_Witness ==
    /\ pc["poller"] \in {"summary", "asset"}
    /\ tick.outcome = "running"
    /\ tick.added # {}
    /\ pc["cmd"] \in {"summary", "notice", "asset"}
    /\ cmd.passed # <<>>

\* the tick has ended
TickEnded == tick.outcome \in {"ok", "empty", "nochannel", "error"}

\* C19: when a tick has ended, the for loop has reached (the marker send was
\* awaited for) every record whose identity the tick added to posted_radios.
C19_TrackedMeansAttempted ==
    TickEnded =>
        tick.added \subseteq {radio_id(tick.new[k]) : k \in 1..tick.started}

\* C20: a tick that finds no channel, or a channel object without send, does
\* not fetch; such a tick, and a tick whose fetch gives an empty result, ends
\* at once, leaves posted_radios as it was and sends nothing.
C20_IdleTickChangesNothing ==
    [][ticks' # ticks =>
          /\ tick'.channel # "ok" =>
                /\ ~tick'.fetch.called
                /\ tick'.outcome = "nochannel"
          /\ tick'.fetch.resp \in {"transport_failed", "bad_json"} =>
                tick'.outcome = "empty"
          /\ (tick'.channel # "ok" \/ tick'.outcome = "empty") =>
                /\ posted_radios' = posted_radios
                /\ pc'["poller"] = "idle"
                /\ tick'.added = {}
                /\ tick'.started = 0
                /\ chan' = chan
                /\ delivered' = delivered
      ]_vars

\* a tick after one that found no channel has delivered a record as new
C20_Witness ==
    /\ tick.prev = "nochannel"
    /\ tick.outcome = "ok"
    /\ tick.added # {}
    /\ \E r \in Range(tick.invoked) : delivered[radio_id(r)] = 1

====
